---- MODULE Spec2Model ----
(***************************************************************************)
(* vmbase/src/memory/dbm.rs: hardware management of the access flag and    *)
(* dirty state.                                                            *)
(*                                                                         *)
(* Two operations are modelled:                                            *)
(*   set_dbm_enabled(enabled)   programs TCR_EL1.{HA,HD}                   *)
(*   flush_dirty_range(r, d, l) the page-table walker's callback           *)
(*                                                                         *)
(* A machine word (usize on aarch64, 64 bits) is modelled as the set of    *)
(* the positions of its set bits, a subset of 0..63: TLC's integers are    *)
(* 32 bits wide and cannot hold 1 << 39.  Bitwise operators are the        *)
(* corresponding set operators restricted to the word's width.             *)
(***************************************************************************)
EXTENDS Integers, Sequences, FiniteSets, TLC

\* ------------------------------------------------------------------ bounds
\* Longest sequence of set_dbm_enabled calls explored.
MaxCalls == 3
\* Longest sequence of descriptors the walker hands to the callback.
MaxVisits == 2
\* Translation levels explored are 0..MaxLevel.
MaxLevel == 3

\* ------------------------------------------------------------- word model
\* Width of usize on aarch64.
WORD_BITS == 64

Word == 0 .. (WORD_BITS - 1)

\* The word whose value is the small natural number n (n < 2^16).
BitsOf(n) == {i \in 0..15 : (n \div (2^i)) % 2 = 1}

\* w << n, truncated to the word's width.
Shl(w, n) == {i + n : i \in w} \cap Word

BitOr(a, b) == a \cup b
BitAnd(a, b) == a \cap b
BitNot(a) == Word \ a

\* The word written 0xAAAA_BBBB_CCCC_DDDD, from its four 16-bit groups.
Hex64(a, b, c, d) ==
    Shl(BitsOf(a), 48) \cup Shl(BitsOf(b), 32) \cup Shl(BitsOf(c), 16) \cup BitsOf(d)

\* ------------------------------------------------------------------ state
VARIABLES
    cfg_hafdbs,          \* cfg!(feature = "cpu_feat_hafdbs"), fixed at build time
    id_aa64mmfr1_el1,    \* feature-identification register (read-only)
    tcr_el1,             \* translation control register
    calls,               \* history: one record per completed set_dbm_enabled call
    flush_log,           \* every flush_region(start, len) issued so far, in order
    visits,              \* number of completed flush_dirty_range calls
    last_visit           \* history: the last completed flush_dirty_range call, if any

vars == <<cfg_hafdbs, id_aa64mmfr1_el1, tcr_el1, calls, flush_log, visits, last_visit>>

\* ------------------------------------------------------- set_dbm_enabled
\* TCR_EL1.{HA,HD} bits controlling hardware management of access and dirty state
TCR_EL1_HA_HD_BITS == Shl(BitsOf(3), 39)

\* Hardware dirty bit management available flag (ID_AA64MMFR1_EL1.HAFDBS[1])
DBM_AVAILABLE == Shl(BitsOf(1), 1)

\* Mutant: the build-time feature check is missing.
dbm_available_no_cfg == BitAnd(id_aa64mmfr1_el1, DBM_AVAILABLE) # {}

dbm_available ==
    IF ~cfg_hafdbs
    THEN FALSE
    ELSE BitAnd(id_aa64mmfr1_el1, DBM_AVAILABLE) # {}

\* System-register accesses made by dbm_available.
dbm_available_events ==
    IF ~cfg_hafdbs THEN <<>> ELSE << <<"read", "id_aa64mmfr1_el1">> >>

\* Mutant: the mask is not negated when clearing.
tcr_toggle_and_mask(tcr, enabled) ==
    IF enabled THEN BitOr(tcr, TCR_EL1_HA_HD_BITS)
               ELSE BitAnd(tcr, TCR_EL1_HA_HD_BITS)

\* Mutant: the bits are flipped instead of set or cleared.
tcr_toggle_xor(tcr, enabled) ==
    (tcr \ TCR_EL1_HA_HD_BITS) \cup (TCR_EL1_HA_HD_BITS \ tcr)

\* Mutant: the mask is one bit too low (3 << 38).
tcr_toggle_shift38(tcr, enabled) ==
    IF enabled THEN BitOr(tcr, Shl(BitsOf(3), 38))
               ELSE BitAnd(tcr, BitNot(Shl(BitsOf(3), 38)))

\* Mutant: enabling sets HD only (1 << 40).
tcr_toggle_hd_only(tcr, enabled) ==
    IF enabled THEN BitOr(tcr, Shl(BitsOf(1), 40))
               ELSE BitAnd(tcr, BitNot(TCR_EL1_HA_HD_BITS))

\* The value written back, from the value read and the argument.
tcr_toggle(tcr, enabled) ==
    IF enabled THEN BitOr(tcr, TCR_EL1_HA_HD_BITS)
               ELSE BitAnd(tcr, BitNot(TCR_EL1_HA_HD_BITS))

CallRecord(enabled, pre, post, events) ==
    [enabled |-> enabled, pre |-> pre, post |-> post, events |-> events]

\* Mutant: the barrier after the register write is missing.
set_dbm_enabled_no_isb(enabled) ==
    /\ Len(calls) < MaxCalls
    /\ IF ~dbm_available
       THEN /\ tcr_el1' = tcr_el1
            /\ calls' = Append(calls,
                   CallRecord(enabled, tcr_el1, tcr_el1, dbm_available_events))
       ELSE LET tcr == tcr_toggle(tcr_el1, enabled)
            IN /\ tcr_el1' = tcr
               /\ calls' = Append(calls,
                      CallRecord(enabled, tcr_el1, tcr,
                          dbm_available_events \o
                          << <<"read", "tcr_el1">>, <<"write", "tcr_el1">> >>))
    /\ UNCHANGED <<cfg_hafdbs, id_aa64mmfr1_el1, flush_log, visits, last_visit>>

set_dbm_enabled(enabled) ==
    /\ Len(calls) < MaxCalls
    /\ IF ~dbm_available
       THEN /\ tcr_el1' = tcr_el1
            /\ calls' = Append(calls,
                   CallRecord(enabled, tcr_el1, tcr_el1, dbm_available_events))
       ELSE LET tcr == tcr_toggle(tcr_el1, enabled)
            IN /\ tcr_el1' = tcr
               /\ calls' = Append(calls,
                      CallRecord(enabled, tcr_el1, tcr,
                          dbm_available_events \o
                          << <<"read", "tcr_el1">>, <<"write", "tcr_el1">>,
                             <<"isb">> >>))
    /\ UNCHANGED <<cfg_hafdbs, id_aa64mmfr1_el1, flush_log, visits, last_visit>>

\* ----------------------------------------------------- flush_dirty_range
\* Descriptor attribute bits named by aarch64_paging::paging::Attributes.
TABLE_OR_PAGE == {1}
READ_ONLY == {7}
Attributes_all == {0, 1, 2, 3, 4, 6, 7, 8, 9, 10, 11, 51, 53, 54}

\* Output-address field of a descriptor (bits 12..47).
PHYSICAL_ADDRESS_BITMASK == 12 .. 47

\* Option<T>: None is <<>>, Some(x) is <<x>>.
None == <<>>
Some(x) == <<x>>

\* Descriptor::flags(): the bits outside the address field, when every one
\* of them is a named attribute; None otherwise.
flags_of(desc) ==
    LET bits == BitAnd(desc, BitNot(PHYSICAL_ADDRESS_BITMASK))
    IN IF bits \subseteq Attributes_all THEN Some(bits) ELSE None

\* Attributes::contains
contains(flags, attr) == attr \subseteq flags

LEAF_PTE_LEVEL == 3

\* page_table::is_leaf_pte: a page at the last level, a block above it.
is_leaf_pte(flags, level) ==
    IF contains(flags, TABLE_OR_PAGE)
    THEN level = LEAF_PTE_LEVEL
    ELSE level < LEAF_PTE_LEVEL

\* MemoryRegion::len
region_len(r) == r.end - r.start

\* Mutant: the end of the range is passed where its length is expected.
flush_dirty_range_end(va_range, desc, level) ==
    LET opt == flags_of(desc)
    IN IF opt = None THEN [ret |-> "Err", flushes |-> <<>>]
       ELSE LET flags == opt[1]
            IN IF ~is_leaf_pte(flags, level) THEN [ret |-> "Ok", flushes |-> <<>>]
               ELSE IF ~contains(flags, READ_ONLY)
                    THEN [ret |-> "Ok",
                          flushes |-> << <<va_range.start, va_range.end>> >>]
                    ELSE [ret |-> "Ok", flushes |-> <<>>]

\* Mutant: the leaf test is missing.
flush_dirty_range_no_leaf(va_range, desc, level) ==
    LET opt == flags_of(desc)
    IN IF opt = None THEN [ret |-> "Err", flushes |-> <<>>]
       ELSE LET flags == opt[1]
            IN IF ~contains(flags, READ_ONLY)
               THEN [ret |-> "Ok",
                     flushes |-> << <<va_range.start, region_len(va_range)>> >>]
               ELSE [ret |-> "Ok", flushes |-> <<>>]

\* Mutant: the read-only test is missing, every leaf is flushed.
flush_dirty_range_all_leaves(va_range, desc, level) ==
    LET opt == flags_of(desc)
    IN IF opt = None THEN [ret |-> "Err", flushes |-> <<>>]
       ELSE LET flags == opt[1]
            IN IF ~is_leaf_pte(flags, level) THEN [ret |-> "Ok", flushes |-> <<>>]
               ELSE [ret |-> "Ok",
                     flushes |-> << <<va_range.start, region_len(va_range)>> >>]

\* Mutant: an undecodable descriptor is read as its raw bits instead of
\* being reported.
flush_dirty_range_unchecked(va_range, desc, level) ==
    LET flags == BitAnd(desc, BitNot(PHYSICAL_ADDRESS_BITMASK))
    IN IF ~is_leaf_pte(flags, level) THEN [ret |-> "Ok", flushes |-> <<>>]
       ELSE IF ~contains(flags, READ_ONLY)
            THEN [ret |-> "Ok",
                  flushes |-> << <<va_range.start, region_len(va_range)>> >>]
            ELSE [ret |-> "Ok", flushes |-> <<>>]

\* The callback: its return value and the flush_region calls it makes.
flush_dirty_range(va_range, desc, level) ==
    LET opt == flags_of(desc)
    IN IF opt = None THEN [ret |-> "Err", flushes |-> <<>>]
       ELSE LET flags == opt[1]
            IN IF ~is_leaf_pte(flags, level) THEN [ret |-> "Ok", flushes |-> <<>>]
               ELSE IF ~contains(flags, READ_ONLY)
                    THEN [ret |-> "Ok",
                          flushes |-> << <<va_range.start, region_len(va_range)>> >>]
                    ELSE [ret |-> "Ok", flushes |-> <<>>]

\* Descriptor bits the walker's descriptors are drawn from: VALID,
\* TABLE_OR_PAGE, READ_ONLY, one output-address bit, and one bit that
\* is neither address nor named attribute.
DescProbeBits == {0, 1, 7, 30, 63}

\* Ranges the walker passes: 4 KiB and 2 MiB spans at 0 and at 0x4000_0000.
Regions ==
    {[start |-> s, end |-> s + n] : s \in {0, 1073741824}, n \in {4096, 2097152}}

\* The walker visits a descriptor and invokes the callback on it.
walker_visit(va_range, desc, level) ==
    /\ visits < MaxVisits
    /\ visits' = visits + 1
    /\ LET r == flush_dirty_range(va_range, desc, level)
       IN /\ flush_log' = flush_log \o r.flushes
          /\ last_visit' = Some(
                 [va_range |-> va_range, desc |-> desc, level |-> level,
                  ret |-> r.ret, log_before |-> flush_log,
                  log_after |-> flush_log \o r.flushes])
    /\ UNCHANGED <<cfg_hafdbs, id_aa64mmfr1_el1, tcr_el1, calls>>

\* --------------------------------------------------------- specifications
\* Register bits the initial TCR_EL1 and ID_AA64MMFR1_EL1 values are drawn from.
TcrProbeBits == {0, 31, 38, 39, 40, 41, 63}
IdProbeBits == {0, 1, 2}

InitDbm ==
    /\ cfg_hafdbs \in BOOLEAN
    /\ id_aa64mmfr1_el1 \in SUBSET IdProbeBits
    /\ tcr_el1 \in SUBSET TcrProbeBits
    /\ calls = <<>>
    /\ flush_log = <<>>
    /\ visits = 0
    /\ last_visit = None

EnableDbm == set_dbm_enabled(TRUE)
DisableDbm == set_dbm_enabled(FALSE)

NextDbm == EnableDbm \/ DisableDbm

SpecDbm == InitDbm /\ [][NextDbm]_vars

InitFlush ==
    /\ cfg_hafdbs = TRUE
    /\ id_aa64mmfr1_el1 = DBM_AVAILABLE
    /\ tcr_el1 = TCR_EL1_HA_HD_BITS
    /\ calls = <<>>
    /\ flush_log = <<>>
    /\ visits = 0
    /\ last_visit = None

Visit ==
    \E va_range \in Regions, desc \in SUBSET DescProbeBits, level \in 0..MaxLevel :
        walker_visit(va_range, desc, level)

NextFlush == Visit

SpecFlush == InitFlush /\ [][NextFlush]_vars

\* ----------------------------------------------------------------- claims
\* The CPU is capable as the claims state it: the build flag is on and bit 1
\* of ID_AA64MMFR1_EL1 is set.
CpuCapable == cfg_hafdbs /\ 1 \in id_aa64mmfr1_el1

HA == 39
HD == 40

IsTcrWrite(e) == e = <<"write", "tcr_el1">>
IsBarrier(e) == e = <<"isb">>
NotIdRead(e) == e # <<"read", "id_aa64mmfr1_el1">>

\* C1 (availability gating): when the build flag is off or bit 1 of
\* ID_AA64MMFR1_EL1 is clear, every set_dbm_enabled call, with either
\* argument, leaves TCR_EL1 equal to its pre-call value, and performs no
\* register write and no barrier.
C1_AvailabilityGating ==
    (~cfg_hafdbs \/ 1 \notin id_aa64mmfr1_el1) =>
        /\ \A i \in 1..Len(calls) :
              /\ calls[i].post = calls[i].pre
              /\ \A k \in 1..Len(calls[i].events) :
                    /\ calls[i].events[k][1] # "write"
                    /\ ~IsBarrier(calls[i].events[k])
        /\ (calls # <<>> => tcr_el1 = calls[1].pre)

\* C1 witness: the flag is off although the CPU advertises the feature, both
\* arguments have been used, and TCR_EL1 holds HA without HD, a value that
\* either a set or a clear of the two bits would change.
C1_Witness ==
    /\ ~cfg_hafdbs
    /\ 1 \in id_aa64mmfr1_el1
    /\ \E i, j \in 1..Len(calls) : calls[i].enabled /\ ~calls[j].enabled
    /\ HA \in tcr_el1
    /\ HD \notin tcr_el1

\* C2 (bit isolation): on a capable CPU every call with argument true leaves
\* TCR_EL1 = v | (3 << 39), every call with argument false leaves
\* TCR_EL1 = v & ~(3 << 39), where v is the pre-call value, and every bit
\* other than 39 and 40 is as in v.
C2_BitIsolation ==
    CpuCapable =>
        \A i \in 1..Len(calls) :
            LET v == calls[i].pre
                w == calls[i].post
            IN /\ calls[i].enabled => w = BitOr(v, Shl(BitsOf(3), 39))
               /\ ~calls[i].enabled => w = BitAnd(v, BitNot(Shl(BitsOf(3), 39)))
               /\ \A b \in Word \ {HA, HD} : (b \in w) <=> (b \in v)
               /\ (i = Len(calls) => tcr_el1 = w)

\* C2 witness: a capable CPU on which the bits were set from a value that had
\* neither (and had their neighbours 38 and 41), and cleared from a value
\* that had both.
C2_Witness ==
    /\ CpuCapable
    /\ \E i, j \in 1..Len(calls) :
          /\ calls[i].enabled
          /\ calls[i].pre \cap {HA, HD} = {}
          /\ {38, 41} \subseteq calls[i].pre
          /\ ~calls[j].enabled
          /\ {HA, HD} \subseteq calls[j].pre

\* C7 (barrier presence): in every call, each write of TCR_EL1 is directly
\* followed by an isb within the same call; on a capable CPU the accesses
\* after the availability check are read TCR_EL1, write TCR_EL1, isb.
C7_BarrierPresence ==
    \A i \in 1..Len(calls) :
        LET e == calls[i].events
        IN /\ \A k \in 1..Len(e) :
                 IsTcrWrite(e[k]) => (k < Len(e) /\ IsBarrier(e[k + 1]))
           /\ CpuCapable =>
                 SelectSeq(e, NotIdRead) =
                     << <<"read", "tcr_el1">>, <<"write", "tcr_el1">>, <<"isb">> >>

\* C7 witness: a call on a capable CPU that changed TCR_EL1.
C7_Witness ==
    /\ CpuCapable
    /\ \E i \in 1..Len(calls) : calls[i].post # calls[i].pre

\* C8 (idempotence): whatever the availability, the second of two consecutive
\* calls with the same argument leaves TCR_EL1 as the first one left it.
C8_Idempotence ==
    \A i \in 1..(Len(calls) - 1) :
        (calls[i + 1].enabled = calls[i].enabled /\ calls[i + 1].pre = calls[i].post)
            => /\ calls[i + 1].post = calls[i].post
               /\ (i + 1 = Len(calls) => tcr_el1 = calls[i].post)

\* C8 witness: two consecutive calls with the same argument on a capable CPU,
\* the first of which changed TCR_EL1.
C8_Witness ==
    /\ CpuCapable
    /\ \E i \in 1..(Len(calls) - 1) :
          /\ calls[i + 1].enabled = calls[i].enabled
          /\ calls[i + 1].pre = calls[i].post
          /\ calls[i].post # calls[i].pre

\* Control-register pre-state of scenario 1: 0x0000_0000_8000_0000.
Scenario1Pre == Hex64(0, 0, 32768, 0)

\* C9 as stated (concrete scenario 1): on a capable CPU, from
\* 0x0000_0000_8000_0000, set_dbm_enabled(true) leaves 0x0000_0183_8000_0000
\* and a following set_dbm_enabled(false) leaves 0x0000_0000_8000_0000.
C9_Scenario1_AsStated ==
    CpuCapable =>
        \A i \in 1..Len(calls) :
            (calls[i].pre = Scenario1Pre /\ calls[i].enabled) =>
                /\ calls[i].post = Hex64(0, 387, 32768, 0)
                /\ (i < Len(calls) /\ ~calls[i + 1].enabled) =>
                       calls[i + 1].post = Scenario1Pre

\* C9 amended: on a capable CPU, from 0x0000_0000_8000_0000,
\* set_dbm_enabled(true) leaves 0x0000_0180_8000_0000 (bits 39 and 40 set)
\* and a following set_dbm_enabled(false) leaves 0x0000_0000_8000_0000.
C9_Scenario1_Amended ==
    CpuCapable =>
        \A i \in 1..Len(calls) :
            (calls[i].pre = Scenario1Pre /\ calls[i].enabled) =>
                /\ calls[i].post = Hex64(0, 384, 32768, 0)
                /\ (i = Len(calls) => tcr_el1 = Hex64(0, 384, 32768, 0))
                /\ (i < Len(calls) /\ ~calls[i + 1].enabled) =>
                       /\ calls[i + 1].post = Scenario1Pre
                       /\ (i + 1 = Len(calls) => tcr_el1 = Scenario1Pre)

\* C9 witness: scenario 1 has run to its end: enable from
\* 0x0000_0000_8000_0000, then disable, on a capable CPU.
C9_Witness ==
    /\ CpuCapable
    /\ Len(calls) = 2
    /\ calls[1].pre = Scenario1Pre
    /\ calls[1].enabled
    /\ ~calls[2].enabled

\* C10 (HA and HD are one switch): on a capable CPU, after at least one call,
\* bits 39 and 40 of TCR_EL1 are both set or both clear, whatever the initial
\* value; no call leaves HD set with HA clear.
C10_OneSwitch ==
    (CpuCapable /\ calls # <<>>) =>
        /\ (HA \in tcr_el1) <=> (HD \in tcr_el1)
        /\ \A i \in 1..Len(calls) :
              /\ (HA \in calls[i].post) <=> (HD \in calls[i].post)
              /\ ~(HD \in calls[i].post /\ HA \notin calls[i].post)

\* C10 witness: a capable CPU whose TCR_EL1 initially had HD without HA, after
\* an enabling call.
C10_Witness ==
    /\ CpuCapable
    /\ calls # <<>>
    /\ HD \in calls[1].pre
    /\ HA \notin calls[1].pre
    /\ \E i \in 1..Len(calls) : calls[i].enabled /\ HA \notin calls[i].pre

\* The last visit's descriptor decodes, and its flags.
LastDecodes == last_visit # None /\ flags_of(last_visit[1].desc) # None
LastFlags == flags_of(last_visit[1].desc)[1]
LastIsLeaf == is_leaf_pte(LastFlags, last_visit[1].level)
LastReadOnly == 7 \in LastFlags

\* C3 (dirty flush): for a decodable leaf descriptor with AP[2] clear,
\* flush_dirty_range returns Ok and has, on return, called flush_region
\* exactly once, with (range.start, range.len).
C3_DirtyFlush ==
    (LastDecodes /\ LastIsLeaf /\ ~LastReadOnly) =>
        LET v == last_visit[1]
        IN /\ v.ret = "Ok"
           /\ v.log_after =
                  Append(v.log_before,
                         <<v.va_range.start, v.va_range.end - v.va_range.start>>)
           /\ flush_log = v.log_after

\* C3 witness: scenario 5, a writable level-3 page covering 4 KiB at
\* 0x4000_0000, visited after an earlier flush.
C3_Witness ==
    /\ LastDecodes /\ LastIsLeaf /\ ~LastReadOnly
    /\ last_visit[1].level = 3
    /\ last_visit[1].va_range = [start |-> 1073741824, end |-> 1073741824 + 4096]
    /\ Len(last_visit[1].log_before) = 1
    /\ flush_log[Len(flush_log)] = <<1073741824, 4096>>

\* C4 (leaf gating): for a decodable descriptor that is not a leaf at the
\* given level, flush_dirty_range returns Ok and calls flush_region zero
\* times, whatever AP[2] is.
C4_LeafGating ==
    (LastDecodes /\ ~LastIsLeaf) =>
        /\ last_visit[1].ret = "Ok"
        /\ last_visit[1].log_after = last_visit[1].log_before
        /\ flush_log = last_visit[1].log_before

\* C4 witness: scenario 3, a table descriptor at level 1 covering a writable
\* span (AP[2] clear).
C4_Witness ==
    /\ LastDecodes /\ ~LastIsLeaf /\ ~LastReadOnly
    /\ last_visit[1].level = 1
    /\ {0, 1} \subseteq last_visit[1].desc

\* C5 (clean gating): for a decodable leaf descriptor with AP[2] set,
\* flush_dirty_range returns Ok and calls flush_region zero times.
C5_CleanGating ==
    (LastDecodes /\ LastIsLeaf /\ LastReadOnly) =>
        /\ last_visit[1].ret = "Ok"
        /\ last_visit[1].log_after = last_visit[1].log_before
        /\ flush_log = last_visit[1].log_before

\* C5 witness: scenario 4, a read-only level-2 block covering 2 MiB.
C5_Witness ==
    /\ LastDecodes /\ LastIsLeaf /\ LastReadOnly
    /\ last_visit[1].level = 2
    /\ last_visit[1].va_range.end - last_visit[1].va_range.start = 2097152

\* C6 (malformed surfacing): when the descriptor's flags do not decode,
\* flush_dirty_range returns Err and calls flush_region zero times, whatever
\* the level, the range and the leaf predicate's answer on the raw bits.
C6_MalformedSurfacing ==
    (last_visit # None /\ flags_of(last_visit[1].desc) = None) =>
        /\ last_visit[1].ret = "Err"
        /\ last_visit[1].log_after = last_visit[1].log_before
        /\ flush_log = last_visit[1].log_before

\* C6 witness: an undecodable descriptor whose raw bits look like a writable
\* level-2 block.
C6_Witness ==
    /\ last_visit # None
    /\ flags_of(last_visit[1].desc) = None
    /\ last_visit[1].level = 2
    /\ 1 \notin last_visit[1].desc
    /\ 7 \notin last_visit[1].desc

====
